---- MODULE Spec2Model ----
(***************************************************************************)
(* serve.py: a static file server (http.server.SimpleHTTPRequestHandler    *)
(* behind a plain socketserver.TCPServer) whose handler overrides          *)
(* end_headers to add the COOP / COEP lines.                               *)
(*                                                                         *)
(* The model follows the script line by line (16: PORT, 17: bind,          *)
(* 18: print, 19: serve_forever) and, inside a request, the calls the      *)
(* handler makes on the standard library: the status line and the          *)
(* standard headers are collected in the handler's header buffer and       *)
(* reach the socket only when the base end_headers flushes it, while       *)
(* wfile is unbuffered, so a wfile.write reaches the socket at once.       *)
(***************************************************************************)
EXTENDS Integers, Sequences, FiniteSets

VARIABLES
    argv,            \* sys.argv[1:], fixed at process start
    bindRefused,     \* environment: the OS refuses a bind to a named port
    pc,              \* position of the main thread in the script
    exc,             \* the exception that ended the process, or "none"
    PORT,            \* <<>> while the name is unbound, else <<value>>
    listener,        \* <<>> while no socket is bound, else <<port>>
    stdout,          \* lines printed so far
    queued,          \* connections waiting in the listen backlog
    request,         \* connection -> the request its client sent
    active,          \* connections whose handler is executing
    hpc,             \* connection -> position of its handler
    headers_buffer,  \* connection -> the handler's _headers_buffer
    wire,            \* connection -> lines sent on the socket so far
    lastOutcome      \* how the most recent handler ended

vars == <<argv, bindRefused, pc, exc, PORT, listener, stdout, queued, request,
          active, hpc, headers_buffer, wire, lastOutcome>>

startup == <<argv, bindRefused, pc, exc, PORT, listener, stdout>>

----------------------------------------------------------------------------
(* Bounds *)

MaxArgLen == 2
MaxConns == 2

Conns == 1..MaxConns

----------------------------------------------------------------------------
(* Command line: int(sys.argv[1]) and the f-string's decimal rendering *)

DigitChars == <<"0", "1", "2", "3", "4", "5", "6", "7", "8", "9">>
DigitSet == {DigitChars[i] : i \in 1..10}
SignSet == {"-", "+"}

\* the characters the modelled arguments are made of
ArgChars == {"0", "8", "x", "-"}

RECURSIVE StringsUpTo(_)
StringsUpTo(n) ==
    IF n = 0 THEN {<<>>}
    ELSE LET shorter == StringsUpTo(n - 1)
         IN  shorter \cup {Append(s, ch) : s \in shorter, ch \in ArgChars}

ArgStrings == StringsUpTo(MaxArgLen)

DigitVal(ch) == CHOOSE d \in 0..9 : DigitChars[d + 1] = ch

RECURSIVE DigitsValue(_)
DigitsValue(t) ==
    IF t = <<>> THEN 0
    ELSE DigitsValue(SubSeq(t, 1, Len(t) - 1)) * 10 + DigitVal(t[Len(t)])

Unsigned(s) == IF s # <<>> /\ s[1] \in SignSet THEN Tail(s) ELSE s

\* int(s) wrapped in a fallback to the default port
IntParseLenient(s) ==
    LET t == Unsigned(s)
    IN  IF t = <<>> \/ \E i \in 1..Len(t) : t[i] \notin DigitSet
        THEN [ok |-> TRUE, value |-> 8000 + 80]
        ELSE [ok |-> TRUE,
              value |-> IF s[1] = "-" THEN 0 - DigitsValue(t) ELSE DigitsValue(t)]

\* int(s): an optional sign and one or more decimal digits, else ValueError
\* (int also takes surrounding blanks and single underscores between digits;
\* ArgChars holds neither)
IntParse(s) ==
    LET t == Unsigned(s)
    IN  IF t = <<>> \/ \E i \in 1..Len(t) : t[i] \notin DigitSet
        THEN [ok |-> FALSE, value |-> 0]
        ELSE [ok |-> TRUE,
              value |-> IF s[1] = "-" THEN 0 - DigitsValue(t) ELSE DigitsValue(t)]

RECURSIVE NatToDecimal(_)
NatToDecimal(n) ==
    IF n < 10 THEN <<DigitChars[n + 1]>>
    ELSE NatToDecimal(n \div 10) \o <<DigitChars[(n % 10) + 1]>>

\* str(n) as the f-string of line 18 renders it
ToDecimal(n) == IF n < 0 THEN <<"-">> \o NatToDecimal(0 - n) ELSE NatToDecimal(n)

DefaultPort == 8080
MaxPortNumber == 65535
EphemeralPorts == {32768, 60999}

AnnouncePrefix == "Serving on http://localhost:"

\* the announcement with the default port written into the text
AnnounceLineFixedText(port) == <<AnnouncePrefix>> \o ToDecimal(DefaultPort)

AnnounceLine(port) == <<AnnouncePrefix>> \o ToDecimal(port)

----------------------------------------------------------------------------
(* Requests and the responses SimpleHTTPRequestHandler plans for them *)

Files == {"/file.txt"}
Dirs == {"/dir"}

\* version "" is a blank request line, "HTTP/0.9" a two-word request line
Requests ==
    { [command |-> "GET",  path |-> "/file.txt", version |-> "HTTP/1.1"],
      [command |-> "GET",  path |-> "/missing",  version |-> "HTTP/1.0"],
      [command |-> "HEAD", path |-> "/missing",  version |-> "HTTP/1.1"],
      [command |-> "POST", path |-> "/file.txt", version |-> "HTTP/1.1"],
      [command |-> "GET",  path |-> "/missing",  version |-> "HTTP/0.9"],
      [command |-> "GET",  path |-> "/dir",      version |-> "HTTP/1.0"],
      [command |-> "",     path |-> "",          version |-> ""] }

NoRequest == [command |-> "", path |-> "", version |-> ""]

ErrorHeaders == <<"Connection: close", "Content-Type: text/html", "Content-Length">>

\* parse_request, the do_<command> dispatch and send_head / send_error
Plan(req) ==
    IF req.version = "" THEN
        [respond |-> FALSE, code |-> 0, hdrs |-> <<>>, body |-> FALSE]
    ELSE IF req.version = "HTTP/0.9" /\ req.command # "GET" THEN
        [respond |-> TRUE, code |-> 400, hdrs |-> ErrorHeaders, body |-> TRUE]
    ELSE IF req.command \notin {"GET", "HEAD"} THEN
        [respond |-> TRUE, code |-> 501, hdrs |-> ErrorHeaders, body |-> TRUE]
    ELSE IF req.path \in Dirs THEN
        [respond |-> TRUE, code |-> 301,
         hdrs |-> <<"Location", "Content-Length: 0">>, body |-> FALSE]
    ELSE IF req.path \in Files THEN
        [respond |-> TRUE, code |-> 200,
         hdrs |-> <<"Content-type", "Content-Length", "Last-Modified">>,
         body |-> req.command = "GET"]
    ELSE
        [respond |-> TRUE, code |-> 404, hdrs |-> ErrorHeaders,
         body |-> req.command # "HEAD"]

\* send_response_only: the status line always carries protocol_version
StatusLine(code) ==
    CASE code = 200 -> "HTTP/1.0 200 OK"
      [] code = 301 -> "HTTP/1.0 301 Moved Permanently"
      [] code = 400 -> "HTTP/1.0 400 Bad HTTP/0.9 request type"
      [] code = 404 -> "HTTP/1.0 404 File not found"
      [] code = 501 -> "HTTP/1.0 501 Unsupported method"

\* send_response .. send_header: what the calls leave in _headers_buffer
BufferedHeaders(req) ==
    IF req.version = "HTTP/0.9" THEN <<>>
    ELSE <<StatusLine(Plan(req).code), "Server", "Date">> \o Plan(req).hdrs

\* line 12 pasted from line 13
Line12Pasted == "Cross-Origin-Embedder-Policy: require-corp"

Line12 == "Cross-Origin-Opener-Policy: same-origin"
Line13 == "Cross-Origin-Embedder-Policy: require-corp"
BlankLine == ""
Body == "<body>"

\* BaseHTTPRequestHandler.end_headers: the terminator joins the buffer,
\* and flush_headers writes the whole buffer to wfile
FlushedHeaders(req, buffer) ==
    IF req.version = "HTTP/0.9" THEN <<>> ELSE Append(buffer, BlankLine)

----------------------------------------------------------------------------
(* Initial state *)

Init ==
    /\ argv \in {<<>>} \cup {<<s>> : s \in ArgStrings}
    /\ bindRefused \in BOOLEAN
    /\ pc = "L16"
    /\ exc = "none"
    /\ PORT = <<>>
    /\ listener = <<>>
    /\ stdout = <<>>
    /\ queued = {}
    /\ request = [c \in Conns |-> NoRequest]
    /\ active = {}
    /\ hpc = [c \in Conns |-> "idle"]
    /\ headers_buffer = [c \in Conns |-> <<>>]
    /\ wire = [c \in Conns |-> <<>>]
    /\ lastOutcome = "none"

conns == <<queued, request, active, hpc, headers_buffer, wire, lastOutcome>>

----------------------------------------------------------------------------
(* Startup: lines 16 - 18 *)

\* line 16 testing len(sys.argv) > 2
ParsePortWrongIndex ==
    /\ pc = "L16"
    /\ IF Len(argv) > 1
       THEN IF IntParse(argv[1]).ok
            THEN /\ PORT' = <<IntParse(argv[1]).value>>
                 /\ pc' = "L17"
                 /\ exc' = exc
            ELSE /\ PORT' = PORT
                 /\ pc' = "failed"
                 /\ exc' = "ValueError"
       ELSE /\ PORT' = <<DefaultPort>>
            /\ pc' = "L17"
            /\ exc' = exc
    /\ UNCHANGED <<argv, bindRefused, listener, stdout, conns>>

\* line 16
ParsePort ==
    /\ pc = "L16"
    /\ IF Len(argv) > 0
       THEN IF IntParse(argv[1]).ok
            THEN /\ PORT' = <<IntParse(argv[1]).value>>
                 /\ pc' = "L17"
                 /\ exc' = exc
            ELSE /\ PORT' = PORT
                 /\ pc' = "failed"
                 /\ exc' = "ValueError"
       ELSE /\ PORT' = <<DefaultPort>>
            /\ pc' = "L17"
            /\ exc' = exc
    /\ UNCHANGED <<argv, bindRefused, listener, stdout, conns>>

\* line 17 with the bind error swallowed
BindIgnoringRefusal ==
    /\ pc = "L17"
    /\ pc' = "L18"
    /\ exc' = exc
    /\ IF PORT[1] \in 1..MaxPortNumber /\ ~bindRefused
       THEN listener' = PORT
       ELSE \E p \in EphemeralPorts : listener' = <<p>>
    /\ UNCHANGED <<argv, bindRefused, PORT, stdout, conns>>

\* line 17: TCPServer.__init__ -> server_bind, server_activate
Bind ==
    /\ pc = "L17"
    /\ IF PORT[1] \notin 0..MaxPortNumber
       THEN /\ pc' = "failed"
            /\ exc' = "OverflowError"
            /\ listener' = listener
       ELSE IF PORT[1] # 0 /\ bindRefused
       THEN /\ pc' = "failed"
            /\ exc' = "OSError"
            /\ listener' = listener
       ELSE /\ pc' = "L18"
            /\ exc' = exc
            /\ IF PORT[1] = 0
               THEN \E p \in EphemeralPorts : listener' = <<p>>
               ELSE listener' = PORT
    /\ UNCHANGED <<argv, bindRefused, PORT, stdout, conns>>

\* line 18
Announce ==
    /\ pc = "L18"
    /\ stdout' = Append(stdout, AnnounceLine(PORT[1]))
    /\ pc' = "L19"
    /\ UNCHANGED <<argv, bindRefused, exc, PORT, listener, conns>>

----------------------------------------------------------------------------
(* Serving: line 19 *)

\* a client connects to the listening socket and sends its request
ClientConnect(c, req) ==
    /\ listener # <<>>
    /\ pc \in {"L18", "L19"}
    /\ c \notin queued \cup active
    /\ queued' = queued \cup {c}
    /\ request' = [request EXCEPT ![c] = req]
    /\ UNCHANGED <<startup, active, hpc, headers_buffer, wire, lastOutcome>>

\* process_request of a threading server: the handler runs elsewhere
CanAcceptThreaded == TRUE

\* process_request calls finish_request in the serving thread itself
CanAccept == active = {}

\* serve_forever -> _handle_request_noblock -> get_request
Accept(c) ==
    /\ pc = "L19"
    /\ CanAccept
    /\ c \in queued
    /\ queued' = queued \ {c}
    /\ active' = active \cup {c}
    /\ hpc' = [hpc EXCEPT ![c] = "handle"]
    /\ UNCHANGED <<startup, request, headers_buffer, wire, lastOutcome>>

\* handle_one_request: parse_request, then do_GET / do_HEAD / send_error up
\* to the call of end_headers
SendResponse(c) ==
    /\ c \in active
    /\ hpc[c] = "handle"
    /\ IF Plan(request[c]).respond
       THEN /\ headers_buffer' =
                   [headers_buffer EXCEPT ![c] = BufferedHeaders(request[c])]
            /\ hpc' = [hpc EXCEPT ![c] = "L12"]
       ELSE /\ headers_buffer' = headers_buffer
            /\ hpc' = [hpc EXCEPT ![c] = "finish"]
    /\ UNCHANGED <<startup, queued, request, active, wire, lastOutcome>>

\* line 12
WriteLine12(c) ==
    /\ c \in active
    /\ hpc[c] = "L12"
    /\ wire' = [wire EXCEPT ![c] = Append(@, Line12)]
    /\ hpc' = [hpc EXCEPT ![c] = "L13"]
    /\ UNCHANGED <<startup, queued, request, active, headers_buffer, lastOutcome>>

\* line 13
WriteLine13(c) ==
    /\ c \in active
    /\ hpc[c] = "L13"
    /\ wire' = [wire EXCEPT ![c] = Append(@, Line13)]
    /\ hpc' = [hpc EXCEPT ![c] = "L14"]
    /\ UNCHANGED <<startup, queued, request, active, headers_buffer, lastOutcome>>

\* line 14
SuperEndHeaders(c) ==
    /\ c \in active
    /\ hpc[c] = "L14"
    /\ wire' = [wire EXCEPT ![c] = @ \o FlushedHeaders(request[c], headers_buffer[c])]
    /\ headers_buffer' = [headers_buffer EXCEPT ![c] = <<>>]
    /\ hpc' = [hpc EXCEPT ![c] = IF Plan(request[c]).body THEN "body" ELSE "finish"]
    /\ UNCHANGED <<startup, queued, request, active, lastOutcome>>

\* copyfile, or the error page of send_error
WriteBody(c) ==
    /\ c \in active
    /\ hpc[c] = "body"
    /\ wire' = [wire EXCEPT ![c] = Append(@, Body)]
    /\ hpc' = [hpc EXCEPT ![c] = "finish"]
    /\ UNCHANGED <<startup, queued, request, active, headers_buffer, lastOutcome>>

\* the connection is shut down and forgotten
Release(c) ==
    /\ active' = active \ {c}
    /\ hpc' = [hpc EXCEPT ![c] = "idle"]
    /\ request' = [request EXCEPT ![c] = NoRequest]
    /\ headers_buffer' = [headers_buffer EXCEPT ![c] = <<>>]
    /\ wire' = [wire EXCEPT ![c] = <<>>]

\* the handler returns; shutdown_request closes the connection
Finish(c) ==
    /\ c \in active
    /\ hpc[c] = "finish"
    /\ Release(c)
    /\ lastOutcome' = "ok"
    /\ UNCHANGED <<startup, queued>>

\* a write raises and nothing catches it: serve_forever is left
HandlerRaisesUncaught(c) ==
    /\ c \in active
    /\ hpc[c] \in {"L12", "L13", "L14", "body"}
    /\ Release(c)
    /\ lastOutcome' = "error"
    /\ pc' = "failed"
    /\ exc' = "OSError"
    /\ UNCHANGED <<argv, bindRefused, PORT, listener, stdout, queued>>

\* a write raises (the client went away): _handle_request_noblock catches
\* the exception, handle_error reports it, shutdown_request closes
HandlerRaises(c) ==
    /\ c \in active
    /\ hpc[c] \in {"L12", "L13", "L14", "body"}
    /\ Release(c)
    /\ lastOutcome' = "error"
    /\ UNCHANGED <<startup, queued>>

\* KeyboardInterrupt or a kill: the with block closes the server and the
\* process ends, whatever it was doing
Interrupt ==
    /\ pc \in {"L18", "L19"}
    /\ pc' = "interrupted"
    /\ exc' = "KeyboardInterrupt"
    /\ listener' = <<>>
    /\ queued' = {}
    /\ active' = {}
    /\ request' = [c \in Conns |-> NoRequest]
    /\ hpc' = [c \in Conns |-> "idle"]
    /\ headers_buffer' = [c \in Conns |-> <<>>]
    /\ wire' = [c \in Conns |-> <<>>]
    /\ UNCHANGED <<argv, bindRefused, PORT, stdout, lastOutcome>>

Next ==
    \/ ParsePort
    \/ Bind
    \/ Announce
    \/ \E c \in Conns, req \in Requests : ClientConnect(c, req)
    \/ \E c \in Conns : Accept(c)
    \/ \E c \in Conns : SendResponse(c)
    \/ \E c \in Conns : WriteLine12(c)
    \/ \E c \in Conns : WriteLine13(c)
    \/ \E c \in Conns : SuperEndHeaders(c)
    \/ \E c \in Conns : WriteBody(c)
    \/ \E c \in Conns : Finish(c)
    \/ \E c \in Conns : HandlerRaises(c)
    \/ Interrupt

Spec == Init /\ [][Next]_vars

----------------------------------------------------------------------------
(* What a client reads on a connection *)

COOP == "Cross-Origin-Opener-Policy: same-origin"
COEP == "Cross-Origin-Embedder-Policy: require-corp"

Lines(w) == {w[i] : i \in 1..Len(w)}

\* index of the blank line that ends the header block, 0 if there is none
Terminator(w) ==
    IF BlankLine \in Lines(w)
    THEN CHOOSE i \in 1..Len(w) : w[i] = BlankLine /\ \A j \in 1..(i - 1) : w[j] # BlankLine
    ELSE 0

\* the header lines of a response: what lies between the status line, which
\* is the first line of the stream, and the terminator
IsStatusLine(line) == line \in {StatusLine(code) : code \in {200, 301, 400, 404, 501}}

HeaderLines(w) == {w[i] : i \in 2..(Terminator(w) - 1)}

\* the handler of c has run end_headers to its end
HeadersSent(c) ==
    c \in active /\ hpc[c] \in {"body", "finish"} /\ Plan(request[c]).respond

IsHttp1(req) == req.version \in {"HTTP/1.0", "HTTP/1.1"}

NoHandling ==
    /\ active = {}
    /\ lastOutcome = "none"
    /\ \A c \in Conns : wire[c] = <<>>

----------------------------------------------------------------------------
(* Claims *)

\* C1: every response carries both lines, and a response that has a header
\* block (any HTTP/1.x request) carries them among its headers.
C1_HeadersPresent ==
    \A c \in Conns :
        HeadersSent(c) =>
            /\ {COOP, COEP} \subseteq Lines(wire[c])
            /\ IsHttp1(request[c]) =>
                   /\ IsStatusLine(wire[c][1])
                   /\ {COOP, COEP} \subseteq HeaderLines(wire[c])

\* C2: in every response with a header block the two lines come after the
\* status line and all standard headers, directly before the terminator.
C2_DirectlyBeforeTerminator ==
    \A c \in Conns :
        HeadersSent(c) /\ IsHttp1(request[c]) =>
            LET w == wire[c]
                t == Terminator(w)
            IN  /\ t >= 4
                /\ IsStatusLine(w[1])
                /\ w[t - 2] = COOP
                /\ w[t - 1] = COEP
                /\ \A i \in 1..(t - 3) : w[i] \notin {COOP, COEP}

\* C3: on every connection the COOP line is directly followed by the COEP
\* line, the COEP line directly preceded by the COOP line, and a response
\* whose headers are sent holds each of them once.
C3_OpenerThenEmbedder ==
    \A c \in Conns :
        LET w == wire[c]
        IN  /\ \A i \in 1..Len(w) :
                   /\ w[i] = COEP => i > 1 /\ w[i - 1] = COOP
                   /\ w[i] = COOP /\ i < Len(w) => w[i + 1] = COEP
            /\ HeadersSent(c) =>
                   /\ Cardinality({i \in 1..Len(w) : w[i] = COOP}) = 1
                   /\ Cardinality({i \in 1..Len(w) : w[i] = COEP}) = 1

C3_Witness ==
    \E c \in Conns : hpc[c] = "finish" /\ COEP \in Lines(wire[c])

\* C4: a GET or HEAD for a path that is neither a file nor a directory gets
\* a response whose status line says 404 and whose headers hold both lines.
C4_NotFoundCarriesHeaders ==
    \A c \in Conns :
        (/\ HeadersSent(c)
         /\ IsHttp1(request[c])
         /\ request[c].command \in {"GET", "HEAD"}
         /\ request[c].path \notin Files \cup Dirs) =>
            /\ wire[c][1] = StatusLine(404)
            /\ {COOP, COEP} \subseteq HeaderLines(wire[c])

\* the largest port an argument of MaxArgLen digits can name
RECURSIVE Pow10(_)
Pow10(n) == IF n = 0 THEN 1 ELSE 10 * Pow10(n - 1)

ValidPorts ==
    1..(IF Pow10(MaxArgLen) - 1 < MaxPortNumber THEN Pow10(MaxArgLen) - 1 ELSE MaxPortNumber)

\* the decimal numerals of the valid ports, and the port each one names
PortNumerals == {ToDecimal(P) : P \in ValidPorts}

PortNamedBy == [s \in PortNumerals |-> CHOOSE P \in ValidPorts : ToDecimal(P) = s]

\* C5: with the decimal numeral of a port P in 1..65535 as the argument the
\* process never binds another port than P, and binds P as soon as line 17
\* has run unless the bind is refused; without an argument the same holds
\* for 8080.
C5_BindsRequestedPort ==
    /\ (argv # <<>> /\ argv[1] \in PortNumerals) =>
           LET P == PortNamedBy[argv[1]]
           IN  /\ listener \in {<<>>, <<P>>}
               /\ pc \in {"L18", "L19"} => listener = <<P>>
               /\ pc = "failed" => bindRefused
    /\ argv = <<>> =>
           /\ listener \in {<<>>, <<8080>>}
           /\ pc \in {"L18", "L19"} => listener = <<8080>>
           /\ pc = "failed" => bindRefused

C5_Witness ==
    /\ argv = <<ToDecimal(80)>>
    /\ listener = <<80>>
    /\ pc = "L19"

\* an argument that holds a character which is neither a digit nor a sign,
\* or that holds no digit at all
NotNumeric(s) ==
    \/ \E i \in 1..Len(s) : s[i] \notin DigitSet \cup SignSet
    \/ \A i \in 1..Len(s) : s[i] \notin DigitSet

CannotBind ==
    /\ PORT # <<>>
    /\ \/ PORT[1] \notin 0..MaxPortNumber
       \/ PORT[1] # 0 /\ bindRefused

\* C7: when the port cannot be bound the process ends at line 17 with the
\* bind error: no listener, no announcement, no serving loop, no request.
C7_BindFailureFails ==
    CannotBind =>
        /\ pc \in {"L17", "failed"}
        /\ listener = <<>>
        /\ stdout = <<>>
        /\ queued = {}
        /\ NoHandling
        /\ pc = "failed" => exc \in {"OSError", "OverflowError"}

C7_Witness ==
    /\ bindRefused
    /\ PORT = <<80>>
    /\ pc = "failed"
    /\ exc = "OSError"

\* C8: while serving, the listener stays bound and no error is pending, and
\* the only step that leaves the serving loop is the external interruption;
\* in particular every step that ends a handler, normally or by an
\* exception, leaves the server in the loop.
C8_ServesForever ==
    /\ [](pc = "L19" => listener # <<>> /\ exc = "none")
    /\ [][pc = "L19" =>
             \/ pc' = "L19"
             \/ pc' = "interrupted" /\ exc' = "KeyboardInterrupt"]_vars

C8_Witness ==
    /\ pc = "L19"
    /\ lastOutcome = "error"
    /\ active = {}
    /\ queued # {}

\* what C9 says apart from the port shown: one line at most, none before
\* line 18 has run, exactly one while serving, and no request handled
\* before it
C9_OnceAfterBindBeforeRequests ==
    /\ Len(stdout) <= 1
    /\ pc \in {"L16", "L17", "L18", "failed"} => stdout = <<>>
    /\ pc = "L18" => listener # <<>>
    /\ pc = "L19" => Len(stdout) = 1 /\ listener # <<>>
    /\ stdout = <<>> => NoHandling

\* C9 as claimed: the line shows the port the listener is bound to.
C9_ShowsBoundPort ==
    /\ C9_OnceAfterBindBeforeRequests
    /\ pc = "L19" => stdout[1] = <<AnnouncePrefix>> \o ToDecimal(listener[1])

\* C9 as amended: the line shows PORT, the value of line 16, which is the
\* port the listener is bound to unless PORT is 0.
C9_ShowsConfiguredPort ==
    /\ C9_OnceAfterBindBeforeRequests
    /\ pc = "L19" =>
           /\ stdout[1] = <<AnnouncePrefix>> \o ToDecimal(PORT[1])
           /\ PORT[1] # 0 => listener = PORT

C9_Witness ==
    /\ pc = "L19"
    /\ argv = << <<"8", "0">> >>
    /\ stdout = << <<AnnouncePrefix, "8", "0">> >>
    /\ lastOutcome = "ok"

\* C10: at most one handler executes, at most one connection has a response
\* under way, and while a handler executes every other connection is idle
\* (not yet accepted, or still in the backlog).
C10_OneAtATime ==
    /\ Cardinality(active) <= 1
    /\ Cardinality({c \in Conns : wire[c] # <<>> \/ headers_buffer[c] # <<>>}) <= 1
    /\ \A c \in Conns : c \notin active => hpc[c] = "idle" /\ wire[c] = <<>>

C10_Witness ==
    \E c \in Conns :
        /\ c \in active
        /\ hpc[c] = "L13"
        /\ queued # {}

====
